---- MODULE Spec2Model ----
(***************************************************************************)
(* A model of harness.py: a wrapper that spawns a child command, reads its *)
(* stdout and stderr pipes line by line, recolours every line according to *)
(* a keyword-to-colour configuration and prints it.                        *)
(*                                                                         *)
(* Text is a sequence of one-character strings.  A keyword is modelled as  *)
(* a literal regular expression (no metacharacters), so re.search is a     *)
(* substring test and re.sub replaces the leftmost non-overlapping         *)
(* occurrences, left to right.  A pipe holds at most PipeCap lines, which  *)
(* stands for the size of the OS pipe buffer.                              *)
(***************************************************************************)
EXTENDS Integers, Sequences, FiniteSets, TLC

VARIABLES
    arguments,      \* Arguments: [mode, style, ignore, file]; file stands for
                    \* the configuration file arguments.file names
    configuration,  \* Configuration: [keywords, colors, baseColor, hasBase]
    pc,             \* position of main(): config, popen, signal, stdout, stderr,
                    \* wait, or how the interpreter ended: done, sysexit,
                    \* exception, kbint, configerror
    handler,        \* SIGINT disposition: "default" or "trap"
    childState,     \* "none", "running", "exited", "killed"
    childStatus,    \* the child's exit status once it is no longer running
    childProg,      \* what the child still has to write: a sequence of [stream, line]
    pipeOut,        \* lines in the stdout pipe, oldest first
    pipeErr,        \* lines in the stderr pipe, oldest first
    outEnd,         \* the supervisor's end of the stdout pipe: none, open, closed
    errEnd,         \* the supervisor's end of the stderr pipe: none, open, closed
    reaped,         \* the child has been waited on (its returncode collected)
    exitStatus,     \* the wrapper's own exit status, NoStatus while it runs
    sink,           \* what the wrapper printed: a sequence of [src, n, text]
    nread,          \* lines read so far from each pipe: [out, err]
    written,        \* history: the lines the child wrote to each pipe, and the
                    \* order of its writes: [out, err, order]
    lastScan,       \* history: the last stdout line read and the rules whose search hit
    sigint          \* history: where main() was when SIGINT arrived, "none" before

vars == <<arguments, configuration, pc, handler, childState, childStatus,
          childProg, pipeOut, pipeErr, outEnd, errEnd, reaped, exitStatus,
          sink, nread, written, lastScan, sigint>>

----------------------------------------------------------------------------
(* Bounds of the model *)

MaxWrites == 3      \* the child writes at most this many lines
PipeCap == 1        \* lines a pipe holds before a write blocks
MaxLineLen == 3     \* characters of a line before its newline
MaxRules == 2       \* rules of a configuration
MaxConfLines == 2   \* lines of a configuration file

----------------------------------------------------------------------------
(* Constants of the program *)

ESC == "ESC"
CSI == <<ESC, "[">>
RST_SUFFIX == CSI \o <<"0", "m">>

LINE == "LINE"
WORD == "WORD"
Bit4 == "Bit4"
Bit8 == "Bit8"
Bit24 == "Bit24"

NL == "\n"
\* an exit status is <<s>>; NoStatus while the process has none
NoStatus == <<>>
\* Python's None, as the result of a call
None == <<>>
SIGKILL == 9

----------------------------------------------------------------------------
(* Text helpers: str.split, str.lower, re.search, re.sub on literal keys *)

Lower(c) ==
    CASE c = "A" -> "a"
      [] c = "B" -> "b"
      [] c = "E" -> "e"
      [] c = "M" -> "m"
      [] c = "N" -> "n"
      [] c = "O" -> "o"
      [] c = "R" -> "r"
      [] c = "S" -> "s"
      [] c = "W" -> "w"
      [] OTHER -> c

\* the first index of sep in s at or after i, 0 when there is none
RECURSIVE Find(_, _, _)
Find(s, sep, i) ==
    IF i > Len(s) THEN 0
    ELSE IF s[i] = sep THEN i
    ELSE Find(s, sep, i + 1)

RECURSIVE split(_, _)
split(s, sep) ==
    LET k == Find(s, sep, 1)
    IN  IF k = 0 THEN <<s>>
        ELSE <<SubSeq(s, 1, k - 1)>> \o split(SubSeq(s, k + 1, Len(s)), sep)

\* the pattern key matches line at position i
MatchAt(key, line, i, ignore) ==
    /\ i + Len(key) - 1 <= Len(line)
    /\ \A j \in 1..Len(key) :
          IF ignore THEN Lower(line[i + j - 1]) = Lower(key[j])
          ELSE line[i + j - 1] = key[j]

\* re.search compiled without re.IGNORECASE whatever the flag says
re_search_case_sensitive(key, line, ignore) ==
    \E i \in 1..(Len(line) + 1) : MatchAt(key, line, i, FALSE)

re_search(key, line, ignore) ==
    \E i \in 1..(Len(line) + 1) : MatchAt(key, line, i, ignore)

RECURSIVE SubFrom(_, _, _, _, _)
SubFrom(key, replace, line, ignore, i) ==
    IF i > Len(line)
    THEN IF key = <<>> THEN replace ELSE <<>>
    ELSE IF key = <<>>
    THEN replace \o <<line[i]>> \o SubFrom(key, replace, line, ignore, i + 1)
    ELSE IF MatchAt(key, line, i, ignore)
    THEN replace \o SubFrom(key, replace, line, ignore, i + Len(key))
    ELSE <<line[i]>> \o SubFrom(key, replace, line, ignore, i + 1)

re_sub(key, replace, line, ignore) == SubFrom(key, replace, line, ignore, 1)

----------------------------------------------------------------------------
(* colorize, handle_word_mode *)

\* colorize with the 4-bit and 8-bit prefixes exchanged
colorize_styles_swapped(text, color, style) ==
    CASE style = Bit8 ->
            CSI \o color \o <<"m">> \o text \o RST_SUFFIX
      [] style = Bit4 ->
            CSI \o <<"3", "8", ";", "5", ";">> \o color \o <<"m">>
                \o text \o RST_SUFFIX
      [] style = Bit24 ->
            LET rgb == split(color, ",")
            IN  CSI \o <<"3", "8", ";", "2", ";">> \o rgb[1] \o <<";">>
                    \o rgb[2] \o <<";">> \o rgb[3] \o <<"m">>
                    \o text \o RST_SUFFIX

colorize(text, color, style) ==
    CASE style = Bit4 ->
            CSI \o color \o <<"m">> \o text \o RST_SUFFIX
      [] style = Bit8 ->
            CSI \o <<"3", "8", ";", "5", ";">> \o color \o <<"m">>
                \o text \o RST_SUFFIX
      [] style = Bit24 ->
            LET rgb == split(color, ",")
            IN  CSI \o <<"3", "8", ";", "2", ";">> \o rgb[1] \o <<";">>
                    \o rgb[2] \o <<";">> \o rgb[3] \o <<"m">>
                    \o text \o RST_SUFFIX

handle_word_mode(line, key, color, style, ignore) ==
    LET replace == colorize(key, color, style)
    IN  re_sub(key, replace, line, ignore)

StderrRed(style) ==
    IF style = Bit24 THEN <<"2", "1", "1", ",", "7", "0", ",", "6", "5">>
    ELSE IF style = Bit8 THEN <<"1", "6", "0">>
    ELSE <<"3", "1">>

----------------------------------------------------------------------------
(* log_stdout: the body of the loop, for one line read from the pipe.      *)
(* ScanRules is the inner "for index, key in enumerate(keywords)" loop; it *)
(* carries the loop's locals: line (reassigned in word mode), skip, output,*)
(* what was printed, and hits, the indices whose re.search succeeded.      *)

\* ScanRules without the break of line mode: every matching rule prints
RECURSIVE ScanRules_no_break(_, _, _, _)
ScanRules_no_break(index, st, conf, args) ==
    IF index > Len(conf.keywords) THEN st
    ELSE LET key == conf.keywords[index]
         IN  IF re_search(key, st.line, args.ignore)
             THEN LET color == conf.colors[index]
                  IN  IF args.mode = LINE
                      THEN ScanRules_no_break(index + 1,
                              [st EXCEPT
                                 !.skip = TRUE,
                                 !.hits = @ \cup {index},
                                 !.printed = Append(@, colorize(st.line, color,
                                                                args.style))],
                              conf, args)
                      ELSE ScanRules_no_break(index + 1,
                              [st EXCEPT
                                 !.skip = TRUE,
                                 !.output = TRUE,
                                 !.hits = @ \cup {index},
                                 !.line = handle_word_mode(st.line, key, color,
                                                           args.style, args.ignore)],
                              conf, args)
             ELSE ScanRules_no_break(index + 1, st, conf, args)

\* ScanRules going through the rules from the last declared to the first
RECURSIVE ScanRules_reversed(_, _, _, _)
ScanRules_reversed(index, st, conf, args) ==
    IF index > Len(conf.keywords) THEN st
    ELSE LET rule == Len(conf.keywords) + 1 - index
             key == conf.keywords[rule]
         IN  IF re_search(key, st.line, args.ignore)
             THEN LET color == conf.colors[rule]
                  IN  IF args.mode = LINE
                      THEN [st EXCEPT
                              !.skip = TRUE,
                              !.hits = @ \cup {rule},
                              !.printed = Append(@, colorize(st.line, color, args.style))]
                      ELSE ScanRules_reversed(index + 1,
                              [st EXCEPT
                                 !.skip = TRUE,
                                 !.output = TRUE,
                                 !.hits = @ \cup {rule},
                                 !.line = handle_word_mode(st.line, key, color,
                                                           args.style, args.ignore)],
                              conf, args)
             ELSE ScanRules_reversed(index + 1, st, conf, args)

RECURSIVE ScanRules(_, _, _, _)
ScanRules(index, st, conf, args) ==
    IF index > Len(conf.keywords) THEN st
    ELSE LET key == conf.keywords[index]
         IN  IF re_search(key, st.line, args.ignore)
             THEN LET color == conf.colors[index]
                  IN  IF args.mode = LINE
                      THEN [st EXCEPT
                              !.skip = TRUE,
                              !.hits = @ \cup {index},
                              !.printed = Append(@, colorize(st.line, color, args.style))]
                      ELSE ScanRules(index + 1,
                              [st EXCEPT
                                 !.skip = TRUE,
                                 !.output = TRUE,
                                 !.hits = @ \cup {index},
                                 !.line = handle_word_mode(st.line, key, color,
                                                           args.style, args.ignore)],
                              conf, args)
             ELSE ScanRules(index + 1, st, conf, args)

\* log_stdout_line without "if skip: continue": a matched line falls through
\* to the base colour case and is printed a second time
log_stdout_line_no_continue(line, conf, args) ==
    LET st == ScanRules(1, [line |-> line, skip |-> FALSE, output |-> FALSE,
                            printed |-> <<>>, hits |-> {}], conf, args)
        p1 == IF st.output THEN Append(st.printed, st.line) ELSE st.printed
        p2 == IF conf.hasBase
              THEN Append(p1, colorize(st.line, conf.baseColor, args.style))
              ELSE Append(p1, st.line)
    IN  [printed |-> p2, hits |-> st.hits]

log_stdout_line(line, conf, args) ==
    LET st == ScanRules(1, [line |-> line, skip |-> FALSE, output |-> FALSE,
                            printed |-> <<>>, hits |-> {}], conf, args)
        p1 == IF st.output THEN Append(st.printed, st.line) ELSE st.printed
        p2 == IF st.skip THEN p1
              ELSE IF conf.hasBase
              THEN Append(p1, colorize(st.line, conf.baseColor, args.style))
              ELSE Append(p1, st.line)
    IN  [printed |-> p2, hits |-> st.hits]

\* log_stderr passing its lines through the classifier of stdout
log_stderr_line_classified(line, args) ==
    log_stdout_line(line, configuration, args).printed

log_stderr_line(line, args) ==
    <<colorize(line, StderrRed(args.style), args.style)>>

\* the print calls of one loop iteration, as entries of the sink
Printed(src, n, texts) ==
    [i \in 1..Len(texts) |-> [src |-> src, n |-> n, text |-> texts[i]]]

\* the exit status of the interpreter after main() returned its result:
\* main() returns None whatever process.wait() returned
main_result(returncode) == None
InterpreterStatus(result) == IF result = None THEN <<0>> ELSE result

----------------------------------------------------------------------------
(* set_configuration: the configuration file is [readable, content], its   *)
(* content the list readlines() returns.  ParseLines is the loop over the  *)
(* lines; a raise ends it with the message of the exception.               *)

IsSpace(c) == c \in {" ", "\t", NL}

strip(s) ==
    LET keep == {i \in 1..Len(s) : ~IsSpace(s[i])}
    IN  IF keep = {} THEN <<>>
        ELSE SubSeq(s, CHOOSE i \in keep : \A j \in keep : i <= j,
                       CHOOSE i \in keep : \A j \in keep : i >= j)

str_lower(s) == [i \in 1..Len(s) |-> Lower(s[i])]

DigitChars == {"0", "1", "2", "3", "4", "5", "6", "7", "8", "9"}

\* int(s) does not raise: optional sign, then digits, blanks around allowed
IsInteger(s) ==
    LET t == strip(s)
        body == IF t /= <<>> /\ t[1] \in {"+", "-"} THEN Tail(t) ELSE t
    IN  /\ body /= <<>>
        /\ \A i \in 1..Len(body) : body[i] \in DigitChars

\* Configuration([], [], 0, False)
EmptyConfiguration ==
    [keywords |-> <<>>, colors |-> <<>>, baseColor |-> <<"0">>, hasBase |-> FALSE]

Raised(message) == [ok |-> FALSE, error |-> message, conf |-> EmptyConfiguration]
Returned(conf) == [ok |-> TRUE, error |-> <<>>, conf |-> conf]

MalformedMessage ==
    <<"Configuration must be in the following format [KEY]=[COLOR]">>
InvalidRGBMessage(keyword, color) ==
    <<"Invalid RGB color format for ">> \o keyword \o <<"=">> \o color
NotIntegerMessage == <<"Color must be an integer">>
UnreadableMessage == <<"[Errno 2] No such file or directory">>

\* ParseLines passing over a line without "=" instead of raising
RECURSIVE ParseLines_skips_malformed(_, _, _, _)
ParseLines_skips_malformed(content, i, conf, style) ==
    IF i > Len(content) THEN Returned(conf)
    ELSE LET line == strip(content[i])
         IN  IF line = <<>> \/ line[1] = "#"
             THEN ParseLines_skips_malformed(content, i + 1, conf, style)
             ELSE LET values == split(line, "=")
                  IN  IF Len(values) < 2
                      THEN ParseLines_skips_malformed(content, i + 1, conf, style)
                      ELSE LET keyword == strip(values[1])
                               color == strip(values[2])
                           IN  IF style = Bit24 /\ Len(split(color, ",")) /= 3
                               THEN Raised(InvalidRGBMessage(keyword, color))
                               ELSE IF style /= Bit24 /\ ~IsInteger(color)
                               THEN Raised(NotIntegerMessage)
                               ELSE IF str_lower(keyword) = <<"b", "a", "s", "e">>
                               THEN ParseLines_skips_malformed(content, i + 1,
                                       [conf EXCEPT !.hasBase = TRUE,
                                                    !.baseColor = color], style)
                               ELSE ParseLines_skips_malformed(content, i + 1,
                                       [conf EXCEPT !.keywords = Append(@, keyword),
                                                    !.colors = Append(@, color)],
                                       style)

\* ParseLines comparing the key with "base" without lowering it
RECURSIVE ParseLines_base_case_sensitive(_, _, _, _)
ParseLines_base_case_sensitive(content, i, conf, style) ==
    IF i > Len(content) THEN Returned(conf)
    ELSE LET line == strip(content[i])
         IN  IF line = <<>> \/ line[1] = "#"
             THEN ParseLines_base_case_sensitive(content, i + 1, conf, style)
             ELSE LET values == split(line, "=")
                  IN  IF Len(values) < 2 THEN Raised(MalformedMessage)
                      ELSE LET keyword == strip(values[1])
                               color == strip(values[2])
                           IN  IF style = Bit24 /\ Len(split(color, ",")) /= 3
                               THEN Raised(InvalidRGBMessage(keyword, color))
                               ELSE IF style /= Bit24 /\ ~IsInteger(color)
                               THEN Raised(NotIntegerMessage)
                               ELSE IF keyword = <<"b", "a", "s", "e">>
                               THEN ParseLines_base_case_sensitive(content, i + 1,
                                       [conf EXCEPT !.hasBase = TRUE,
                                                    !.baseColor = color], style)
                               ELSE ParseLines_base_case_sensitive(content, i + 1,
                                       [conf EXCEPT !.keywords = Append(@, keyword),
                                                    !.colors = Append(@, color)],
                                       style)

RECURSIVE ParseLines(_, _, _, _)
ParseLines(content, i, conf, style) ==
    IF i > Len(content) THEN Returned(conf)
    ELSE LET line == strip(content[i])
         IN  IF line = <<>> \/ line[1] = "#"
             THEN ParseLines(content, i + 1, conf, style)
             ELSE LET values == split(line, "=")
                  IN  IF Len(values) < 2 THEN Raised(MalformedMessage)
                      ELSE LET keyword == strip(values[1])
                               color == strip(values[2])
                           IN  IF style = Bit24 /\ Len(split(color, ",")) /= 3
                               THEN Raised(InvalidRGBMessage(keyword, color))
                               ELSE IF style /= Bit24 /\ ~IsInteger(color)
                               THEN Raised(NotIntegerMessage)
                               ELSE IF str_lower(keyword) = <<"b", "a", "s", "e">>
                               THEN ParseLines(content, i + 1,
                                       [conf EXCEPT !.hasBase = TRUE,
                                                    !.baseColor = color], style)
                               ELSE ParseLines(content, i + 1,
                                       [conf EXCEPT !.keywords = Append(@, keyword),
                                                    !.colors = Append(@, color)],
                                       style)

set_configuration(file, style) ==
    IF ~file.readable THEN Raised(UnreadableMessage)
    ELSE ParseLines(file.content, 1, EmptyConfiguration, style)

----------------------------------------------------------------------------
(* Inputs *)

Modes == {LINE, WORD}
Styles == {Bit4, Bit8, Bit24}
Alphabet == {"A", "a", "m"}
Digits == <<"1", "2", "3", "4", "5", "6">>

SeqsUpTo(S, n) == UNION {[1..k -> S] : k \in 0..n}

\* a line as readline returns it: its text and the newline
Lines == {b \o <<NL>> : b \in SeqsUpTo(Alphabet, MaxLineLen)}

Keys == {<<"A">>, <<"m">>, <<"A", "a">>, <<"a", "m">>}

\* the colour declared with the i-th rule, valid for the style
RuleColor(style, i) ==
    IF style = Bit24 THEN <<Digits[i], ",", Digits[i], ",", Digits[i]>>
    ELSE <<"3", Digits[i]>>

BaseColor(style) ==
    IF style = Bit24 THEN <<"9", ",", "9", ",", "9">> ELSE <<"1", "5">>

Configurations(keylists, style) ==
    {[keywords |-> ks,
      colors |-> [i \in 1..Len(ks) |-> RuleColor(style, i)],
      baseColor |-> IF hb THEN BaseColor(style) ELSE <<"0">>,
      hasBase |-> hb] : ks \in keylists, hb \in BOOLEAN}

\* the supervisor model: one rule list, the lines it matches twice, once, never
ProcKeys == <<<<"A">>, <<"m">>>>
ProcLines == {<<"A", "m", NL>>, <<"A", NL>>, <<"a", NL>>}
ErrLine == <<"a", NL>>
ChildOps == {[stream |-> "out", line |-> l] : l \in ProcLines}
                \cup {[stream |-> "err", line |-> ErrLine]}
ExitCodes == {0, 1}

\* a line of the configuration file that declares key with color
KeyLine(key, color) == key \o <<"=">> \o color \o <<NL>>
ReadableFile(content) == [readable |-> TRUE, content |-> content]
UnreadableFile == [readable |-> FALSE, content |-> <<>>]

\* the files of the supervisor model: the rules of ProcKeys without and with
\* a base colour, and one file for each way loading fails
ProcFiles(style) ==
    LET rule1 == KeyLine(ProcKeys[1], RuleColor(style, 1))
        rule2 == KeyLine(ProcKeys[2], RuleColor(style, 2))
        base == KeyLine(<<"b", "a", "s", "e">>, BaseColor(style))
    IN  {ReadableFile(<<rule1, rule2>>),
         ReadableFile(<<rule1, rule2, base>>),
         UnreadableFile,
         ReadableFile(<<rule1, ProcKeys[2] \o <<NL>>>>),
         ReadableFile(<<rule1, KeyLine(ProcKeys[2], <<"x">>)>>)}

----------------------------------------------------------------------------
(* The supervisor: main() *)

Init ==
    /\ \E mode \in Modes, style \in Styles :
          \E file \in ProcFiles(style) :
              arguments = [mode |-> mode, style |-> style, ignore |-> FALSE,
                           file |-> file]
    /\ configuration = EmptyConfiguration
    /\ pc = "config"
    /\ handler = "default"
    /\ childState = "none"
    /\ childStatus = NoStatus
    /\ childProg \in SeqsUpTo(ChildOps, MaxWrites)
    /\ pipeOut = <<>>
    /\ pipeErr = <<>>
    /\ outEnd = "none"
    /\ errEnd = "none"
    /\ reaped = FALSE
    /\ exitStatus = NoStatus
    /\ sink = <<>>
    /\ nread = [out |-> 0, err |-> 0]
    /\ written = [out |-> <<>>, err |-> <<>>, order |-> <<>>]
    /\ lastScan = [line |-> <<>>, hits |-> {}]
    /\ sigint = "none"

\* SetConfiguration with a handled decorator that prints the exception and
\* returns instead of exiting: main() goes on to spawn the child
SetConfiguration_no_exit ==
    /\ pc = "config"
    /\ LET r == set_configuration(arguments.file, arguments.style)
       IN  IF r.ok
           THEN /\ configuration' = r.conf
                /\ UNCHANGED sink
           ELSE /\ sink' = Append(sink, [src |-> "error", n |-> 0, text |-> r.error])
                /\ UNCHANGED configuration
    /\ pc' = "popen"
    /\ UNCHANGED <<arguments, handler, childState, childStatus, childProg,
                   pipeOut, pipeErr, outEnd, errEnd, reaped, exitStatus, nread,
                   written, lastScan, sigint>>

\* configuration = set_configuration(arguments.file, arguments.style), under
\* the handled decorator: an exception is printed and the wrapper exits with 1
SetConfiguration ==
    /\ pc = "config"
    /\ LET r == set_configuration(arguments.file, arguments.style)
       IN  IF r.ok
           THEN /\ configuration' = r.conf
                /\ pc' = "popen"
                /\ UNCHANGED <<sink, exitStatus>>
           ELSE /\ sink' = Append(sink, [src |-> "error", n |-> 0, text |-> r.error])
                /\ pc' = "configerror"
                /\ exitStatus' = <<1>>
                /\ UNCHANGED configuration
    /\ UNCHANGED <<arguments, handler, childState, childStatus, childProg,
                   pipeOut, pipeErr, outEnd, errEnd, reaped, nread, written,
                   lastScan, sigint>>

Alive == pc \in {"popen", "signal", "stdout", "stderr", "wait"}

\* subprocess.Popen(...) with both streams piped
Popen ==
    /\ pc = "popen"
    /\ pc' = "signal"
    /\ childState' = "running"
    /\ outEnd' = "open"
    /\ errEnd' = "open"
    /\ UNCHANGED <<arguments, configuration, handler, childStatus, childProg,
                   pipeOut, pipeErr, reaped, exitStatus, sink, nread, written,
                   lastScan, sigint>>

\* Popen raises (command not found): an uncaught exception ends the wrapper
PopenFails ==
    /\ pc = "popen"
    /\ pc' = "exception"
    /\ exitStatus' = <<1>>
    /\ UNCHANGED <<arguments, configuration, handler, childState, childStatus,
                   childProg, pipeOut, pipeErr, outEnd, errEnd, reaped, sink,
                   nread, written, lastScan, sigint>>

\* signal.signal(signal.SIGINT, signal_trap)
InstallTrap ==
    /\ pc = "signal"
    /\ pc' = "stdout"
    /\ handler' = "trap"
    /\ UNCHANGED <<arguments, configuration, childState, childStatus, childProg,
                   pipeOut, pipeErr, outEnd, errEnd, reaped, exitStatus, sink,
                   nread, written, lastScan, sigint>>

\* the child is blocked in a write: the pipe it writes to next is full
ChildBlockedOn(stream) ==
    /\ childState = "running"
    /\ childProg /= <<>>
    /\ Head(childProg).stream = stream
    /\ Len(IF stream = "out" THEN pipeOut ELSE pipeErr) >= PipeCap

ChildWrites ==
    /\ Alive
    /\ childState = "running"
    /\ childProg /= <<>>
    /\ LET op == Head(childProg)
       IN  /\ ~ChildBlockedOn(op.stream)
           /\ IF op.stream = "out"
              THEN /\ pipeOut' = Append(pipeOut, op.line)
                   /\ written' = [written EXCEPT !.out = Append(@, op.line),
                                                 !.order = Append(@, "out")]
                   /\ UNCHANGED pipeErr
              ELSE /\ pipeErr' = Append(pipeErr, op.line)
                   /\ written' = [written EXCEPT !.err = Append(@, op.line),
                                                 !.order = Append(@, "err")]
                   /\ UNCHANGED pipeOut
    /\ childProg' = Tail(childProg)
    /\ UNCHANGED <<arguments, configuration, pc, handler, childState,
                   childStatus, outEnd, errEnd, reaped, exitStatus, sink, nread,
                   lastScan, sigint>>

\* the child terminates on its own; the write ends of its pipes close
ChildExits ==
    /\ Alive
    /\ childState = "running"
    /\ childProg = <<>>
    /\ \E s \in ExitCodes : childStatus' = <<s>>
    /\ childState' = "exited"
    /\ UNCHANGED <<arguments, configuration, pc, handler, childProg, pipeOut,
                   pipeErr, outEnd, errEnd, reaped, exitStatus, sink, nread,
                   written, lastScan, sigint>>

\* readline returns "" only when the pipe is empty and its write end is closed
AtEOF(pipe) == pipe = <<>> /\ childState \in {"exited", "killed"}

\* the supervisor is blocked in readline on the named pipe
ReaderBlockedOn(stream) ==
    IF stream = "out"
    THEN pc = "stdout" /\ pipeOut = <<>> /\ childState = "running"
    ELSE pc = "stderr" /\ pipeErr = <<>> /\ childState = "running"

\* one iteration of the loop of log_stdout
LogStdoutLine ==
    /\ pc = "stdout"
    /\ pipeOut /= <<>>
    /\ LET line == Head(pipeOut)
           r == log_stdout_line(line, configuration, arguments)
       IN  /\ sink' = sink \o Printed("out", nread.out + 1, r.printed)
           /\ lastScan' = [line |-> line, hits |-> r.hits]
    /\ pipeOut' = Tail(pipeOut)
    /\ nread' = [nread EXCEPT !.out = @ + 1]
    /\ UNCHANGED <<arguments, configuration, pc, handler, childState,
                   childStatus, childProg, pipeErr, outEnd, errEnd, reaped,
                   exitStatus, written, sigint>>

\* log_stdout's end of stream followed at once by process.wait(), log_stderr
\* left out
LogStdoutEOF_skips_stderr ==
    /\ pc = "stdout"
    /\ AtEOF(pipeOut)
    /\ outEnd' = "closed"
    /\ pc' = "wait"
    /\ UNCHANGED <<arguments, configuration, handler, childState, childStatus,
                   childProg, pipeOut, pipeErr, errEnd, reaped, exitStatus,
                   sink, nread, written, lastScan, sigint>>

\* end of stream on stdout: the loop ends and "with process.stdout" closes it
LogStdoutEOF ==
    /\ pc = "stdout"
    /\ AtEOF(pipeOut)
    /\ outEnd' = "closed"
    /\ pc' = "stderr"
    /\ UNCHANGED <<arguments, configuration, handler, childState, childStatus,
                   childProg, pipeOut, pipeErr, errEnd, reaped, exitStatus,
                   sink, nread, written, lastScan, sigint>>

\* log_stderr running alongside log_stdout instead of after it
LogStderrLine_concurrent ==
    /\ pc \in {"stdout", "stderr"}
    /\ pipeErr /= <<>>
    /\ sink' = sink \o Printed("err", nread.err + 1,
                               log_stderr_line(Head(pipeErr), arguments))
    /\ pipeErr' = Tail(pipeErr)
    /\ nread' = [nread EXCEPT !.err = @ + 1]
    /\ UNCHANGED <<arguments, configuration, pc, handler, childState,
                   childStatus, childProg, pipeOut, outEnd, errEnd, reaped,
                   exitStatus, written, lastScan, sigint>>

\* one iteration of the loop of log_stderr
LogStderrLine ==
    /\ pc = "stderr"
    /\ pipeErr /= <<>>
    /\ sink' = sink \o Printed("err", nread.err + 1,
                               log_stderr_line(Head(pipeErr), arguments))
    /\ pipeErr' = Tail(pipeErr)
    /\ nread' = [nread EXCEPT !.err = @ + 1]
    /\ UNCHANGED <<arguments, configuration, pc, handler, childState,
                   childStatus, childProg, pipeOut, outEnd, errEnd, reaped,
                   exitStatus, written, lastScan, sigint>>

\* end of stream on stderr: the loop ends and "with process.stderr" closes it
LogStderrEOF ==
    /\ pc = "stderr"
    /\ AtEOF(pipeErr)
    /\ errEnd' = "closed"
    /\ pc' = "wait"
    /\ UNCHANGED <<arguments, configuration, handler, childState, childStatus,
                   childProg, pipeOut, pipeErr, outEnd, reaped, exitStatus,
                   sink, nread, written, lastScan, sigint>>

\* readline raises (undecodable bytes): the exception leaves the with block,
\* which closes that pipe, and ends the wrapper; nothing after it runs
ReadFails ==
    /\ \/ pc = "stdout" /\ pipeOut /= <<>> /\ outEnd' = "closed" /\ UNCHANGED errEnd
       \/ pc = "stderr" /\ pipeErr /= <<>> /\ errEnd' = "closed" /\ UNCHANGED outEnd
    /\ pc' = "exception"
    /\ exitStatus' = <<1>>
    /\ UNCHANGED <<arguments, configuration, handler, childState, childStatus,
                   childProg, pipeOut, pipeErr, reaped, sink, nread, written,
                   lastScan, sigint>>

\* process.wait(), then main() returns and the interpreter exits
Wait ==
    /\ pc = "wait"
    /\ childState \in {"exited", "killed"}
    /\ reaped' = TRUE
    /\ pc' = "done"
    /\ exitStatus' = InterpreterStatus(main_result(childStatus))
    /\ UNCHANGED <<arguments, configuration, handler, childState, childStatus,
                   childProg, pipeOut, pipeErr, outEnd, errEnd, sink, nread,
                   written, lastScan, sigint>>

\* SIGINT arrives while the trap is installed: signal_trap runs process.kill()
\* and sys.exit(0).  kill() polls first, which reaps a child that has already
\* exited, and sends SIGKILL otherwise.  SystemExit then leaves the with block
\* main() is in, which closes that one pipe.
SignalTrap ==
    /\ Alive
    /\ handler = "trap"
    /\ sigint' = pc
    /\ IF childState = "running"
       THEN childState' = "killed" /\ childStatus' = <<0 - SIGKILL>> /\ UNCHANGED reaped
       ELSE reaped' = TRUE /\ UNCHANGED <<childState, childStatus>>
    /\ outEnd' = IF pc = "stdout" THEN "closed" ELSE outEnd
    /\ errEnd' = IF pc = "stderr" THEN "closed" ELSE errEnd
    /\ pc' = "sysexit"
    /\ exitStatus' = <<0>>
    /\ UNCHANGED <<arguments, configuration, handler, childProg, pipeOut,
                   pipeErr, sink, nread, written, lastScan>>

\* SIGINT arrives before signal.signal has run: Python's default handler raises
\* KeyboardInterrupt in main(), nothing catches it, the child is left alone
DefaultSigint ==
    /\ Alive
    /\ handler = "default"
    /\ sigint' = pc
    /\ pc' = "kbint"
    /\ exitStatus' = <<130>>
    /\ UNCHANGED <<arguments, configuration, handler, childState, childStatus,
                   childProg, pipeOut, pipeErr, outEnd, errEnd, reaped, sink,
                   nread, written, lastScan>>

Next ==
    \/ SetConfiguration
    \/ Popen
    \/ PopenFails
    \/ InstallTrap
    \/ ChildWrites
    \/ ChildExits
    \/ LogStdoutLine
    \/ LogStdoutEOF
    \/ LogStderrLine
    \/ LogStderrEOF
    \/ ReadFails
    \/ Wait
    \/ SignalTrap
    \/ DefaultSigint

Spec == Init /\ [][Next]_vars

----------------------------------------------------------------------------
(* The classifier alone: the program sits in log_stdout with one line in   *)
(* the stdout pipe, written by a child that has since exited; the line,    *)
(* the rule list, the base colour, the mode, the style and the case flag   *)
(* range over the whole input sets.                                        *)

InitRender ==
    /\ arguments \in [mode : Modes, style : Styles, ignore : BOOLEAN]
    /\ configuration \in Configurations(SeqsUpTo(Keys, MaxRules), arguments.style)
    /\ pc = "stdout"
    /\ handler = "trap"
    /\ childState = "exited"
    /\ childStatus = <<0>>
    /\ childProg = <<>>
    /\ \E l \in Lines : pipeOut = <<l>>
                         /\ written = [out |-> <<l>>, err |-> <<>>,
                                       order |-> <<"out">>]
    /\ pipeErr = <<>>
    /\ outEnd = "open"
    /\ errEnd = "open"
    /\ reaped = FALSE
    /\ exitStatus = NoStatus
    /\ sink = <<>>
    /\ nread = [out |-> 0, err |-> 0]
    /\ lastScan = [line |-> <<>>, hits |-> {}]
    /\ sigint = "none"

NextRender == LogStdoutLine

SpecRender == InitRender /\ [][NextRender]_vars

----------------------------------------------------------------------------
(* log_stderr alone: stdout has been drained and closed, one line is in    *)
(* the stderr pipe; the line, the configuration and the arguments range    *)
(* over the same sets as for the classifier.                               *)

InitStderr ==
    /\ arguments \in [mode : Modes, style : Styles, ignore : BOOLEAN]
    /\ configuration \in Configurations(SeqsUpTo(Keys, MaxRules), arguments.style)
    /\ pc = "stderr"
    /\ handler = "trap"
    /\ childState = "exited"
    /\ childStatus = <<0>>
    /\ childProg = <<>>
    /\ pipeOut = <<>>
    /\ \E l \in Lines : pipeErr = <<l>>
                         /\ written = [out |-> <<>>, err |-> <<l>>,
                                       order |-> <<"err">>]
    /\ outEnd = "closed"
    /\ errEnd = "open"
    /\ reaped = FALSE
    /\ exitStatus = NoStatus
    /\ sink = <<>>
    /\ nread = [out |-> 0, err |-> 0]
    /\ lastScan = [line |-> <<>>, hits |-> {}]
    /\ sigint = "none"

NextStderr == LogStderrLine

SpecStderr == InitStderr /\ [][NextStderr]_vars

----------------------------------------------------------------------------
(* Loading alone: the start of main() up to the spawn, over every file of  *)
(* at most MaxConfLines lines drawn from ConfLines, and the missing file.  *)

ConfLines ==
    {<<NL>>,
     <<"#", "A", "=", "3", "1", NL>>,
     <<"A", "=", "3", "1", NL>>,
     <<" ", "m", " ", "=", " ", "3", "2", " ", NL>>,
     <<"A", "=", "1", ",", "2", ",", "3", NL>>,
     <<" ", "m", " ", "=", " ", "4", ",", "5", ",", "6", " ", NL>>,
     <<"A", NL>>,
     <<"A", "=", "x", NL>>,
     <<"A", "=", "a", ",", "b", ",", "c", NL>>,
     <<"A", "=", "1", ",", "2", NL>>,
     <<"b", "a", "s", "e", "=", "1", "5", NL>>,
     <<" ", "B", "a", "S", "e", " ", "=", " ", "7", " ", NL>>,
     <<"b", "a", "s", "e", "=", "9", ",", "9", ",", "9", NL>>,
     <<"B", "A", "S", "E", "=", "1", ",", "2", ",", "3", NL>>,
     <<"b", "a", "s", "e", "=", "x", NL>>}

LoadFiles ==
    {ReadableFile(c) : c \in SeqsUpTo(ConfLines, MaxConfLines)} \cup {UnreadableFile}

InitLoad ==
    /\ \E style \in Styles, file \in LoadFiles :
          arguments = [mode |-> LINE, style |-> style, ignore |-> FALSE,
                       file |-> file]
    /\ configuration = EmptyConfiguration
    /\ pc = "config"
    /\ handler = "default"
    /\ childState = "none"
    /\ childStatus = NoStatus
    /\ childProg = <<>>
    /\ pipeOut = <<>>
    /\ pipeErr = <<>>
    /\ outEnd = "none"
    /\ errEnd = "none"
    /\ reaped = FALSE
    /\ exitStatus = NoStatus
    /\ sink = <<>>
    /\ nread = [out |-> 0, err |-> 0]
    /\ written = [out |-> <<>>, err |-> <<>>, order |-> <<>>]
    /\ lastScan = [line |-> <<>>, hits |-> {}]
    /\ sigint = "none"

NextLoad ==
    \/ SetConfiguration
    \/ Popen
    \/ PopenFails

SpecLoad == InitLoad /\ [][NextLoad]_vars

----------------------------------------------------------------------------
(* The classifier on log lines with the keywords ERROR, WARN and error,    *)
(* declared red and yellow, in every order.                                *)

KeyERROR == <<"E", "R", "R", "O", "R">>
KeyWARN == <<"W", "A", "R", "N">>
KeyError == <<"e", "r", "r", "o", "r">>
ExampleKeys == {KeyERROR, KeyWARN, KeyError}

LineWarnErrorSeen ==
    <<"W", "A", "R", "N", ":", " ", "E", "R", "R", "O", "R", " ",
      "s", "e", "e", "n", NL>>
LineErrorOccurred ==
    <<"E", "R", "R", "O", "R", " ", "o", "c", "c", "u", "r", "r", "e", "d", NL>>
LineWarnOk == <<"w", "a", "r", "n", ":", " ", "o", "k", NL>>
ExampleLines == {LineWarnErrorSeen, LineErrorOccurred, LineWarnOk}

Red(style) == StderrRed(style)
Yellow(style) ==
    IF style = Bit24 THEN <<"2", "5", "5", ",", "2", "5", "5", ",", "0">>
    ELSE IF style = Bit8 THEN <<"1", "1">>
    ELSE <<"3", "3">>
ExampleColor(key, style) == IF key = KeyWARN THEN Yellow(style) ELSE Red(style)

InitExample ==
    /\ arguments \in [mode : Modes, style : Styles, ignore : BOOLEAN]
    /\ \E ks \in SeqsUpTo(ExampleKeys, MaxRules), hb \in BOOLEAN :
          configuration =
              [keywords |-> ks,
               colors |-> [i \in 1..Len(ks) |-> ExampleColor(ks[i], arguments.style)],
               baseColor |-> IF hb THEN BaseColor(arguments.style) ELSE <<"0">>,
               hasBase |-> hb]
    /\ pc = "stdout"
    /\ handler = "trap"
    /\ childState = "exited"
    /\ childStatus = <<0>>
    /\ childProg = <<>>
    /\ \E l \in ExampleLines : pipeOut = <<l>>
                                /\ written = [out |-> <<l>>, err |-> <<>>,
                                              order |-> <<"out">>]
    /\ pipeErr = <<>>
    /\ outEnd = "open"
    /\ errEnd = "open"
    /\ reaped = FALSE
    /\ exitStatus = NoStatus
    /\ sink = <<>>
    /\ nread = [out |-> 0, err |-> 0]
    /\ lastScan = [line |-> <<>>, hits |-> {}]
    /\ sigint = "none"

NextExample == LogStdoutLine

SpecExample == InitExample /\ [][NextExample]_vars

----------------------------------------------------------------------------
(* Vocabulary of the properties *)

Terminated == pc \in {"done", "sysexit", "exception", "kbint"}

\* the entries of the sink that come from one stream, in output order
StreamEntries(src) == SelectSeq(sink, LAMBDA e : e.src = src)

\* text with every escape sequence ESC [ ... m removed
RECURSIVE StripFrom(_, _, _)
StripFrom(s, i, inEscape) ==
    IF i > Len(s) THEN <<>>
    ELSE IF inEscape
    THEN StripFrom(s, i + 1, s[i] /= "m")
    ELSE IF s[i] = ESC
    THEN StripFrom(s, i + 1, TRUE)
    ELSE <<s[i]>> \o StripFrom(s, i + 1, FALSE)

StripEscapes(s) == StripFrom(s, 1, FALSE)

\* the number of non-overlapping occurrences of key in line, leftmost first
RECURSIVE CountFrom(_, _, _, _)
CountFrom(key, line, ignore, i) ==
    IF i > Len(line) THEN 0
    ELSE IF MatchAt(key, line, i, ignore)
    THEN 1 + CountFrom(key, line, ignore, i + Len(key))
    ELSE CountFrom(key, line, ignore, i + 1)

Occurrences(key, line, ignore) == CountFrom(key, line, ignore, 1)

\* one stdout line has been read and classified; Original is that line as
\* the child wrote it
Classified == nread.out = 1 /\ Len(written.out) = 1
Original == written.out[1]
Rules == 1..Len(configuration.keywords)

\* rule i matches the original line, under the run's case setting
MatchesOriginal(i) ==
    re_search(configuration.keywords[i], Original, arguments.ignore)

MatchingRules == {i \in Rules : MatchesOriginal(i)}

----------------------------------------------------------------------------
(* C1: a child that fills the stderr pipe before it writes to stdout does  *)
(* not deadlock the run: no state is reachable in which the child is       *)
(* blocked writing to a full stderr pipe while the supervisor is blocked   *)
(* reading stdout.  The code drains stdout to its end before it starts on  *)
(* stderr, and the state is reached.                                       *)
C1_NoPipeDeadlock ==
    ~(ChildBlockedOn("err") /\ ReaderBlockedOn("out"))

(* C2: a SIGINT that arrives at any moment after the child was spawned     *)
(* kills the child and ends the wrapper through the clean exit path        *)
(* (sys.exit(0)).  The trap is installed only after Popen returned; a      *)
(* SIGINT in between raises KeyboardInterrupt and leaves the child alone.  *)
C2_InterruptKillsChildAndExitsCleanly ==
    sigint \notin {"none", "popen"} =>
        /\ childState /= "running"
        /\ pc = "sysexit"
        /\ exitStatus = <<0>>

(* C3: when the child terminated on its own with status s and main() has   *)
(* returned, the wrapper's exit status is s.  main() discards the value of *)
(* process.wait(), so the wrapper exits with 0 whatever s is.              *)
C3_ExitStatusIsTheChilds ==
    (pc = "done" /\ childState = "exited") =>
        /\ reaped
        /\ exitStatus = childStatus

(* C4: on every exit path of a run that spawned a child, both pipes have   *)
(* been closed and the child has been waited on by the time the run ends, *)
(* whether main() returned, signal_trap ran, or a reader raised.           *)
(* signal_trap and an exception in a reader leave without process.wait()   *)
(* and without closing the pipe main() is not currently reading.           *)
C4_ReleasedOnEveryExitPath ==
    (pc \in {"done", "sysexit", "exception"} /\ childState /= "none") =>
        /\ outEnd = "closed"
        /\ errEnd = "closed"
        /\ reaped

(* C5: for each stream, every line read yields exactly one output line, in *)
(* the order the child wrote them: the k-th output of a stream comes from  *)
(* the k-th line read from it, the pipe hands lines over in the order      *)
(* written, and once a reader has seen end-of-stream on its pipe every     *)
(* line the child wrote to that pipe was read.                             *)
C5_OneOutputPerLineInOrder ==
    /\ \A src \in {"out", "err"} :
          LET o == StreamEntries(src)
          IN  /\ Len(o) = nread[src]
              /\ \A k \in 1..Len(o) : o[k].n = k
    /\ pipeOut = SubSeq(written.out, nread.out + 1, Len(written.out))
    /\ pipeErr = SubSeq(written.err, nread.err + 1, Len(written.err))
    /\ pc \in {"stderr", "wait", "done"} => nread.out = Len(written.out)
    /\ pc \in {"wait", "done"} => nread.err = Len(written.err)

C5_Witness ==
    /\ pc = "done"
    /\ arguments.mode = WORD
    /\ lastScan.hits = {1, 2}
    /\ Len(written.out) >= 2
    /\ Len(written.err) >= 1
    /\ Len(sink) = Len(written.out) + Len(written.err)

(* C6: removing the inserted escape sequences from a rendered stdout line  *)
(* gives back the line as the child wrote it.  Word mode substitutes the   *)
(* rule's pattern text, not the matched text, and a later rule substitutes *)
(* inside the escape sequences an earlier one inserted.                    *)
C6_StrippedOutputIsTheInput ==
    \A k \in 1..Len(sink) :
        sink[k].src = "out" =>
            StripEscapes(sink[k].text) = written.out[sink[k].n]

(* C7: in line mode, a line that some rule matches is printed once, whole, *)
(* wrapped in the colour of the lowest-index matching rule; no later rule  *)
(* is tried.                                                               *)
C7_LineModeFirstMatchWins ==
    (Classified /\ arguments.mode = LINE /\ MatchingRules /= {}) =>
        LET first == CHOOSE i \in MatchingRules :
                         \A j \in MatchingRules : i <= j
        IN  /\ lastScan.hits = {first}
            /\ sink = <<[src |-> "out", n |-> 1,
                         text |-> colorize(Original, configuration.colors[first],
                                           arguments.style)]>>

C7_Witness ==
    /\ Classified
    /\ arguments.mode = LINE
    /\ MatchingRules = {1, 2}
    /\ Len(sink) = 1
    /\ configuration.hasBase

(* C8: in word mode every rule whose pattern matches the original line is  *)
(* applied: each occurrence of its pattern in the original line appears in *)
(* the rendered line wrapped in that rule's colour.  A rule is searched in *)
(* the line as rewritten by the rules before it, so a pattern that         *)
(* overlaps an earlier one is no longer found.                             *)
C8_WordModeEveryMatchingRuleApplied ==
    (Classified /\ arguments.mode = WORD) =>
        \A i \in MatchingRules :
            /\ Len(sink) = 1
            /\ Occurrences(colorize(configuration.keywords[i],
                                    configuration.colors[i], arguments.style),
                           sink[1].text, arguments.ignore)
                 >= Occurrences(configuration.keywords[i], Original,
                                arguments.ignore)

(* C9: in word mode, whether a rule matches depends only on the original   *)
(* line: the rules whose search succeeds are exactly the rules that match  *)
(* the line as the child wrote it.  The search runs on the rewritten line, *)
(* escape sequences included.                                              *)
C9_MatchDependsOnOriginalOnly ==
    (Classified /\ arguments.mode = WORD) =>
        lastScan.hits = MatchingRules

(* C10: a stdout line that no rule matches is printed once: wrapped whole  *)
(* in the base colour when one is configured, unchanged otherwise, in line *)
(* mode and in word mode.                                                  *)
C10_UnmatchedLineBaseOrUnchanged ==
    (Classified /\ MatchingRules = {}) =>
        sink = <<[src |-> "out", n |-> 1,
                  text |-> IF configuration.hasBase
                           THEN CSI \o (IF arguments.style = Bit4 THEN <<>>
                                        ELSE IF arguments.style = Bit8
                                        THEN <<"3", "8", ";", "5", ";">>
                                        ELSE <<"3", "8", ";", "2", ";">>)
                                    \o [k \in 1..Len(configuration.baseColor) |->
                                          IF configuration.baseColor[k] = ","
                                          THEN ";" ELSE configuration.baseColor[k]]
                                    \o <<"m">> \o Original \o RST_SUFFIX
                           ELSE Original]>>

C10_Witness ==
    /\ Classified
    /\ MatchingRules = {}
    /\ Len(configuration.keywords) = 2
    /\ configuration.hasBase
    /\ arguments.mode = WORD
    /\ Len(Original) = 4
    /\ Len(sink) = 1

\* key occurs in line, character for character
ContainsText(key, line) ==
    \E i \in 1..(Len(line) - Len(key) + 1) :
        SubSeq(line, i, i + Len(key) - 1) = key

\* the one entry the sink holds when the line was printed once as text
PrintedOnce(text) == <<[src |-> "out", n |-> 1, text |-> text]>>

(* C11: the case setting decides every rule's match in the same way: a     *)
(* rule tried on the line as read hits exactly when its keyword occurs in  *)
(* the line, compared ignoring case if and only if the flag is set; when   *)
(* no rule hits, the line takes the base colour or passes unchanged.       *)
C11_CaseSettingDecidesMatch ==
    Classified =>
        /\ \A i \in Rules :
              (\A j \in 1..(i - 1) : j \notin lastScan.hits) =>
                  (i \in lastScan.hits <=>
                      IF arguments.ignore
                      THEN ContainsText(str_lower(configuration.keywords[i]),
                                        str_lower(Original))
                      ELSE ContainsText(configuration.keywords[i], Original))
        /\ lastScan.hits = {} =>
              sink = PrintedOnce(IF configuration.hasBase
                                 THEN colorize(Original, configuration.baseColor,
                                               arguments.style)
                                 ELSE Original)

C11_Witness ==
    /\ Classified
    /\ configuration.keywords = <<KeyError>>
    /\ Original = LineErrorOccurred
    /\ arguments.ignore
    /\ lastScan.hits = {1}

\* the rules ERROR=red, WARN=yellow in that order, line mode, and the line
\* "WARN: ERROR seen" has been classified
ErrorBeforeWarnCase ==
    /\ Classified
    /\ arguments.mode = LINE
    /\ configuration.keywords = <<KeyERROR, KeyWARN>>
    /\ configuration.colors = <<Red(arguments.style), Yellow(arguments.style)>>
    /\ Original = LineWarnErrorSeen

(* C12 as stated: with the rules ERROR=red, WARN=yellow in that order, the *)
(* line "WARN: ERROR seen" is rendered whole in yellow, never in red.      *)
C12_RenderedYellow ==
    ErrorBeforeWarnCase =>
        sink = PrintedOnce(colorize(Original, Yellow(arguments.style),
                                    arguments.style))

(* C12 as amended: with the rules ERROR=red, WARN=yellow in that order,    *)
(* the line "WARN: ERROR seen" is rendered whole in red, the colour of     *)
(* ERROR, the first declared rule that matches, and never in yellow; the   *)
(* rule WARN is not tried.                                                 *)
C12_RenderedRed ==
    ErrorBeforeWarnCase =>
        /\ lastScan.hits = {1}
        /\ sink = PrintedOnce(colorize(Original, Red(arguments.style),
                                       arguments.style))

C12_Witness ==
    /\ ErrorBeforeWarnCase
    /\ Len(sink) = 1
    /\ ~arguments.ignore

\* the parameters of the escape sequence that selects the error colour
ErrorColourCode(style) ==
    IF style = Bit4 THEN <<"3", "1">>
    ELSE IF style = Bit8 THEN <<"3", "8", ";", "5", ";", "1", "6", "0">>
    ELSE <<"3", "8", ";", "2", ";", "2", "1", "1", ";", "7", "0", ";", "6", "5">>

(* C13: every line read from stderr is printed once, wrapped in the fixed  *)
(* error colour of the style (31, 160 or 211,70,65), whatever the rules,   *)
(* the base colour, the mode and the case setting are.                     *)
C13_StderrInFixedErrorColour ==
    /\ Len(StreamEntries("err")) = nread.err
    /\ \A k \in 1..Len(sink) :
          sink[k].src = "err" =>
              sink[k].text = CSI \o ErrorColourCode(arguments.style) \o <<"m">>
                                 \o written.err[sink[k].n] \o RST_SUFFIX

C13_Witness ==
    /\ nread.err = 1
    /\ Len(sink) = 1
    /\ configuration.hasBase
    /\ arguments.mode = WORD
    /\ arguments.ignore
    /\ Len(configuration.keywords) = 2
    /\ \A i \in Rules :
          re_search(configuration.keywords[i], written.err[1], arguments.ignore)

\* loading arguments.file raises
LoadFails == ~set_configuration(arguments.file, arguments.style).ok

(* C14: when loading the configuration fails (unreadable file, a line      *)
(* without "=", an invalid colour), the error is printed, the wrapper      *)
(* exits with status 1, and no child is ever spawned: no pipe exists and   *)
(* nothing but the error message is printed.                               *)
C14_ConfigErrorAbortsBeforeSpawn ==
    (LoadFails /\ pc /= "config") =>
        /\ pc = "configerror"
        /\ exitStatus = <<1>>
        /\ childState = "none"
        /\ outEnd = "none" /\ errEnd = "none"
        /\ Len(sink) = 1
        /\ sink[1].src = "error"
        /\ sink[1].text \in {UnreadableMessage, MalformedMessage, NotIntegerMessage}
                               \cup {InvalidRGBMessage(ProcKeys[2], <<"x">>)}

C14_Witness ==
    /\ pc = "configerror"
    /\ arguments.file.readable
    /\ sink = <<[src |-> "error", n |-> 0, text |-> MalformedMessage]>>
    /\ childProg /= <<>>

----------------------------------------------------------------------------
(* Vocabulary of the properties about loading: what a file declares, read  *)
(* off its lines without going through ParseLines.                         *)

NoBlanks(l) == SelectSeq(l, LAMBDA c : ~IsSpace(c))
IsPrefix(p, t) == Len(p) <= Len(t) /\ SubSeq(t, 1, Len(p)) = p
Member(c, t) == \E i \in 1..Len(t) : t[i] = c

\* a line that is neither blank nor a comment
IsEntry(l) == NoBlanks(l) /= <<>> /\ NoBlanks(l)[1] /= "#"
DeclaresBase(l) ==
    IsEntry(l) /\ IsPrefix(<<"b", "a", "s", "e", "=">>, str_lower(NoBlanks(l)))

FileContent == arguments.file.content
EntryLines == SelectSeq(FileContent, IsEntry)
RuleLines == SelectSeq(FileContent, LAMBDA l : IsEntry(l) /\ ~DeclaresBase(l))
BaseLines == SelectSeq(FileContent, DeclaresBase)

Loaded == pc \notin {"config", "configerror"}

(* C15: loading either fails as a whole, and then no Configuration is      *)
(* bound and no child is spawned, or it returns a Configuration whose      *)
(* keywords and colors have the same length, one pair for every rule line  *)
(* of the file in order, colors[i] being the colour written on the line of *)
(* keywords[i]; a file with an entry without "=" at any position fails.    *)
C15_LoadIsAllOrNothing ==
    pc /= "config" =>
        /\ (\E k \in 1..Len(EntryLines) : ~Member("=", EntryLines[k])) =>
              pc = "configerror"
        /\ pc = "configerror" =>
              configuration = EmptyConfiguration /\ childState = "none"
        /\ Loaded =>
              /\ Len(configuration.keywords) = Len(configuration.colors)
              /\ Len(configuration.keywords) = Len(RuleLines)
              /\ \A i \in 1..Len(RuleLines) :
                    IsPrefix(configuration.keywords[i] \o <<"=">>
                                 \o configuration.colors[i],
                             NoBlanks(RuleLines[i]))

C15_Witness ==
    /\ pc = "configerror"
    /\ arguments.style = Bit4
    /\ FileContent = <<<<" ", "m", " ", "=", " ", "3", "2", " ", NL>>, <<"A", NL>>>>
    /\ sink = <<[src |-> "error", n |-> 0, text |-> MalformedMessage]>>

(* C16: after a successful load, a base colour is set exactly when a line  *)
(* declares the key "base" in any letter case, and it is the colour of the *)
(* last such line; no such line becomes a rule; every other entry is a     *)
(* rule, in file order, repeated keys included.                            *)
C16_BaseIsFallbackLastWins ==
    Loaded =>
        /\ configuration.hasBase <=> BaseLines /= <<>>
        /\ configuration.hasBase =>
              IsPrefix(<<"b", "a", "s", "e", "=">> \o configuration.baseColor,
                       str_lower(NoBlanks(BaseLines[Len(BaseLines)])))
        /\ Len(configuration.keywords) = Len(RuleLines)
        /\ \A i \in 1..Len(RuleLines) :
              /\ IsPrefix(configuration.keywords[i] \o <<"=">>, NoBlanks(RuleLines[i]))
              /\ str_lower(configuration.keywords[i]) /= <<"b", "a", "s", "e">>

C16_Witness ==
    /\ pc = "popen"
    /\ FileContent = <<<<"b", "a", "s", "e", "=", "1", "5", NL>>,
                       <<" ", "B", "a", "S", "e", " ", "=", " ", "7", " ", NL>>>>
    /\ configuration.hasBase
    /\ configuration.baseColor = <<"7">>
    /\ configuration.keywords = <<>>

\* the colour value of an entry: the text between the first "=" and the
\* next one, trimmed
ColourValue(l) == strip(split(strip(l), "=")[2])

\* the value parses for the style: an integer for 4-bit and 8-bit, exactly
\* three comma-separated integers for 24-bit
ParsesForStyle(value, style) ==
    IF style = Bit24
    THEN LET parts == split(value, ",")
         IN  Len(parts) = 3 /\ \A i \in 1..3 : IsInteger(parts[i])
    ELSE IsInteger(value)

(* C17: loading fails whenever an entry's colour value does not parse for  *)
(* the style, ordinary rule or base.  Under the 24-bit style the code      *)
(* only counts the comma-separated parts and never checks that they are    *)
(* integers.                                                               *)
C17_InvalidColourFailsLoad ==
    (pc /= "config" /\ arguments.file.readable) =>
        ((\E k \in 1..Len(EntryLines) :
             /\ Member("=", EntryLines[k])
             /\ ~ParsesForStyle(ColourValue(EntryLines[k]), arguments.style))
         => pc = "configerror")

(* C18: when a reader's read fails mid-run, the run still drains the other *)
(* stream to end-of-stream, does not kill the child, and waits on the      *)
(* child before it concludes.  The exception leaves main() at once: a      *)
(* failure in log_stdout skips log_stderr, and process.wait() is skipped   *)
(* after a failure in either reader.                                       *)
C18_ReadFailureIsPerStream ==
    (pc = "exception" /\ childState /= "none") =>
        /\ childState /= "killed"
        /\ outEnd = "closed" /\ errEnd = "closed"
        /\ \E other \in {"out", "err"} :
              /\ nread[other] = Len(written[other])
              /\ childState = "exited"
        /\ reaped

(* C19: in a run without interruption the lifecycle only moves forward,    *)
(* one state at a time, through NotStarted, Running, NaturallyExited,      *)
(* Reaped; it becomes NaturallyExited, and the child is waited on, only    *)
(* when both readers have seen end-of-stream and closed their pipes.       *)
LifecycleOrder == <<"NotStarted", "Running", "NaturallyExited", "Reaped">>

Lifecycle ==
    IF pc = "done" THEN "Reaped"
    ELSE IF pc = "wait" THEN "NaturallyExited"
    ELSE IF childState /= "none" THEN "Running"
    ELSE "NotStarted"

Rank(state) == CHOOSE i \in 1..Len(LifecycleOrder) : LifecycleOrder[i] = state

BothReadersSawEOF ==
    /\ outEnd = "closed" /\ errEnd = "closed"
    /\ AtEOF(pipeOut) /\ AtEOF(pipeErr)
    /\ nread.out = Len(written.out) /\ nread.err = Len(written.err)

C19_LifecycleInOrder ==
    [][(sigint' = "none") =>
          /\ Rank(Lifecycle') \in {Rank(Lifecycle), Rank(Lifecycle) + 1}
          /\ (Lifecycle' = "NaturallyExited" /\ Lifecycle = "Running") =>
                BothReadersSawEOF'
          /\ (reaped' /\ ~reaped) =>
                Lifecycle = "NaturallyExited" /\ BothReadersSawEOF]_vars

C19_Witness ==
    /\ Lifecycle = "Reaped"
    /\ reaped
    /\ sigint = "none"
    /\ written.out /= <<>>
    /\ written.err /= <<>>
    /\ BothReadersSawEOF

(* C20: nothing read from the child's stderr is written out before the     *)
(* child's stdout has reached end-of-stream and been closed: in the        *)
(* output every stdout-derived line precedes every stderr-derived line,    *)
(* whatever order the child wrote them in.                                 *)
C20_StdoutBeforeStderr ==
    /\ (\E k \in 1..Len(sink) : sink[k].src = "err") => outEnd = "closed"
    /\ \A j, k \in 1..Len(sink) :
          (sink[j].src = "err" /\ sink[k].src = "out") => k < j

C20_Witness ==
    /\ Len(written.order) >= 2
    /\ written.order[1] = "err"
    /\ written.order[Len(written.order)] = "out"
    /\ sink /= <<>>
    /\ sink[1].src = "out"
    /\ sink[Len(sink)].src = "err"
    /\ Len(sink) = Len(written.order)

====
